---- MODULE Spec2Model ----
(***************************************************************************)
(* Multi-embedding face identification of the attendance tracker:          *)
(* the face_embeddings table behind FaceService, the HTTP handlers of      *)
(* routes/face_api.py that mutate it, and the matcher                      *)
(* recognize_employee_multi.                                               *)
(*                                                                         *)
(* Numbers.  A face encoding is a tuple of coordinates in tenths; a        *)
(* distance, a confidence and the tolerance are in thousandths (1.0 is     *)
(* Unit).  The database is PostgreSQL at its default isolation level READ  *)
(* COMMITTED: db is the committed table, tx[w] what the session of request *)
(* w has written and not yet committed (rows it holds locked).             *)
(***************************************************************************)
EXTENDS Integers, Sequences, FiniteSets, TLC

\* ------------------------------------------------------------- bounds
MaxRecords == 2                  \* ids the face_embeddings sequence hands out
MaxFaces == 2                    \* faces the detector reports in one image
MaxTime == 3                     \* ticks the clock makes
MaxSchedules == 2                \* ids the work_schedules sequence hands out

Workers == {"w1", "w2"}          \* request threads, one session each
Employees == {"E1", "E2"}        \* employee codes of the employees table
UnknownCode == "E9"              \* a code no employee has
Codes == Employees \cup {UnknownCode}
EnrollEncodings == {<<0, 0>>, <<4, 0>>}       \* encodings of the enrolment photos
Encodings == EnrollEncodings \cup {<<4, 3>>}  \* encodings of the photos to recognise
Ids == 1..MaxRecords

\* embedding_type tags and the vector length of each: the 128 coordinates of
\* a face_recognition encoding are 2 here, the 512 of a deepface one 3.
StandardDim == 2
DeepfaceDim == 3
EmbeddingTypes == {"standard", "deepface"}
EmbeddingDim(etype) == IF etype = "standard" THEN StandardDim ELSE DeepfaceDim

\* ------------------------------------------------------------- constants
Unit == 1000                     \* 1.0
DefaultTolerance == 400          \* FaceDetector(tolerance = 0.4)
ConfigTolerance == 600           \* Config.FACE_RECOGNITION_TOLERANCE
ConfidenceFloor == 600           \* confidence >= 0.6
Tolerances == {DefaultTolerance, ConfigTolerance}

NoDistance == -1                 \* the result has no 'distance' key
NoId == 0                        \* the result has no 'embedding_id' key
NoQuality == -1                  \* quality_score is NULL
NoTime == -1                     \* check_in_time or check_out_time is NULL
NoDate == -1                     \* effective_from or effective_to is NULL
DayTicks == 2                    \* ticks of the clock in one day
NotRun == -1                     \* the detector was not reached
None == "None"

\* ------------------------------------------------------------- messages
MsgNoData == "Khong co du lieu"
MsgCodeRequired == "Ma nhan vien la bat buoc"
MsgImageRequired == "Du lieu anh la bat buoc"
MsgBadImage == "Du lieu anh khong hop le"
MsgOneFace == "Anh phai chua dung mot khuon mat"
MsgNoFace == "Khong co khuon mat trong anh"
MsgManyFaces == "Nhieu khuon mat duoc phat hien"
MsgRegisterCrash == "Dang ky that bai"
MsgRecognizeCrash == "Nhan dang that bai"
MsgEmployeeNotFound == "Employee not found"
MsgAdded == "Face embedding added successfully"
MsgAddFailed == "Failed to add embedding"
MsgEmbeddingNotFound == "Embedding not found"
MsgPrimarySet == "Primary embedding set successfully"
MsgPrimaryFailed == "Failed to set primary"
MsgDeleted == "Face embedding deleted successfully"
MsgDeleteFailed == "Deletion failed"
MsgNoRegistered == "No registered faces found"
MsgNoDistances == "Could not calculate face distances"
MsgRecognized == "Employee recognized"
MsgLowConfidence == "Face detected but confidence too low. Please register your face."
MsgNoMatch == "No matching face found. Please register your face."
MsgRecognitionFailed == "Recognition failed"
MsgRegisterFailed == "Registration failed"
MsgListFailed == "Error getting embeddings for employee"

MsgQualityFailed == "Error detecting face quality"

BadPayloads == {MsgNoData, MsgCodeRequired, MsgImageRequired, MsgBadImage}

\* ------------------------------------------------------------- face quality
\* Brightness and contrast are grey levels, the sharpness is the variance of
\* the Laplacian, the face ratio is in ten-thousandths of the image area.
BlurThreshold == 100             \* laplacian_var < 100
DarkThreshold == 50              \* brightness < 50
SmallRatio == 100                \* face_ratio < 0.01
Sharpnesses == {0, 99, 100, 101}
Brightnesses == {0, 29, 30, 49, 50, 51, 200, 201, 250, 251}
Contrasts == {0, 20, 21, 30, 31}
FaceRatios == {1, 99, 100, 101}

IsBlurry(sharpness) == sharpness < BlurThreshold

\* Mutant: a brightness of exactly 50 counts as dark.
IsDarkInclusive(brightness) == brightness <= DarkThreshold

IsDark(brightness) == brightness < DarkThreshold

IsSmall(face_ratio) == face_ratio < SmallRatio

\* The dictionary returned for an empty face region and from the except
\* branch; it has no laplacian_variance and no face_ratio.
PoorQuality ==
    [quality_score |-> 0, is_blurry |-> TRUE, is_dark |-> TRUE, is_small |-> TRUE,
     brightness |-> 0, contrast |-> 0, laplacian_variance |-> NotRun,
     face_ratio |-> NotRun]

\* ImageProcessor.detect_face_quality once the face region is measured.
DetectFaceQuality(sharpness, brightness, contrast, face_ratio) ==
    LET s1 == IF ~IsBlurry(sharpness) THEN 30 ELSE 0
        s2 == s1 + (IF ~IsDark(brightness) THEN 30 ELSE 0)
        s3 == s2 + (IF ~IsSmall(face_ratio) THEN 20 ELSE 0)
        s4 == s3 + (IF 50 <= brightness /\ brightness <= 200 THEN 10
                    ELSE IF \/ 30 <= brightness /\ brightness < 50
                            \/ 200 < brightness /\ brightness <= 250 THEN 5
                    ELSE 0)
        s5 == s4 + (IF contrast > 30 THEN 10 ELSE IF contrast > 20 THEN 5 ELSE 0)
    IN  [quality_score |-> IF s5 < 100 THEN s5 ELSE 100,
         is_blurry |-> IsBlurry(sharpness), is_dark |-> IsDark(brightness),
         is_small |-> IsSmall(face_ratio),
         brightness |-> brightness, contrast |-> contrast,
         laplacian_variance |-> sharpness, face_ratio |-> face_ratio]

VARIABLES
    db,          \* committed rows of face_embeddings: id -> row
    next_id,     \* next value of the id sequence
    tolerance,   \* face_detector.tolerance
    legacy,      \* committed employees.face_encoding: code -> encoding, << >> if NULL
    pc,          \* pc[w]: where request w stands
    req,         \* req[w]: the arguments of request w
    tx,          \* tx[w]: uncommitted work of the session of request w
    last,        \* the last completed exchange: the request and its response
    FACE_RECOGNITION_TOLERANCE,  \* the configured tolerance
    attendance,  \* committed rows of attendance, in the order of their ids
    work_schedules,    \* committed rows of work_schedules: id -> row
    next_schedule_id,  \* next value of the id sequence of work_schedules
    now,         \* the clock, in ticks
    kiosk        \* kiosk[w]: where the kiosk request of thread w stands

\* The configuration and the tables of the attendance side of the application.
app_vars ==
    <<FACE_RECOGNITION_TOLERANCE, attendance, work_schedules, next_schedule_id, now,
      kiosk>>

vars == <<db, next_id, tolerance, legacy, pc, req, tx, last, app_vars>>

\* ------------------------------------------------------------- rows
NewRow(code, enc, etype, quality, primary) ==
    [employee_code |-> code, embedding |-> enc, embedding_type |-> etype,
     variant_type |-> "default", quality_score |-> quality,
     is_primary |-> primary, is_active |-> TRUE]

RowsOf(d, code) == {i \in DOMAIN d : d[i].employee_code = code}

ActiveIds(d) == {i \in DOMAIN d : d[i].is_active}

\* filter_by(employee_code = code, is_primary = True)
PrimaryIds(d, code) == {i \in RowsOf(d, code) : d[i].is_primary}

\* has_any_embeddings: count of active rows of the employee > 0
HasAnyEmbeddings(d, code) ==
    Cardinality({i \in RowsOf(d, code) : d[i].is_active}) > 0

\* Mutant: the UPDATE that clears the other primaries is left out.
ClearPrimaryLeftOut(d, ids) == d

\* UPDATE ... SET is_primary = False on the rows ids
ClearPrimary(d, ids) ==
    [i \in DOMAIN d |-> IF i \in ids THEN [d[i] EXCEPT !.is_primary = FALSE] ELSE d[i]]

\* The rows an UPDATE ... WHERE employee_code = code AND is_primary changes
\* once it holds their locks: of the rows cand its snapshot selected, those
\* whose latest committed version still satisfies the WHERE clause.
StillPrimary(d, cand, code) ==
    {i \in cand \cap DOMAIN d : d[i].employee_code = code /\ d[i].is_primary}

\* Mutant: the UPDATE is committed on its own, before the new primary is set.
AutoCommitted(d, ids) == ClearPrimary(d, ids)

\* The committed table after a statement of a transaction that is still open.
Uncommitted(d, ids) == d

\* Mutant: the cleared flags stay cleared when the commit fails.
NotRolledBack(d, ids) == ClearPrimary(d, ids)

\* The committed table after session.rollback() of a transaction that had
\* cleared the primary flag of the rows ids.
RolledBack(d, ids) == d

\* Mutant: is_primary = set_as_primary.
MakePrimaryOnRequest(sp, hasAny) == sp

\* Mutant: every new row is primary.
MakePrimaryAlways(sp, hasAny) == TRUE

\* is_primary = set_as_primary or (not self.has_any_embeddings(employee_code))
MakePrimary(sp, hasAny) == sp \/ ~hasAny

\* session.add(face_embedding); session.commit()
CommitAdd(d, cleared, id, row) ==
    LET c == ClearPrimary(d, cleared)
    IN  [i \in DOMAIN d \cup {id} |-> IF i = id THEN row ELSE c[i]]

\* embedding.is_primary = True; session.commit()
CommitPrimary(d, cleared, id) ==
    LET c == ClearPrimary(d, cleared)
    IN  [i \in DOMAIN d |-> IF i = id THEN [c[i] EXCEPT !.is_primary = TRUE] ELSE c[i]]

\* Mutant: the row is reported deleted and stays in the table.
DeleteRowKept(d, id) == d

\* session.delete(embedding); session.commit()
DeleteRow(d, id) == [i \in DOMAIN d \ {id} |-> d[i]]

\* Mutant: only an image without a face is rejected.
AtLeastOneFace(n) == n >= 1

\* result_detect['faces_found'] != 1 rejects the image
SingleFace(n) == n = 1

\* Mutant: the employee is not looked up.
EmployeeAssumed(code) == TRUE

\* query(Employee).filter(Employee.employee_code == employee_code).first()
\* finds a row
EmployeeExists(code) == code \in Employees

\* ------------------------------------------------------------- sessions
IdleReq ==
    [op |-> "none", code |-> None, sp |-> FALSE, id |-> NoId, faces |-> NotRun,
     etype |-> None, quality |-> NoQuality]
IdleTx == [cand |-> {}, cleared |-> {}, make_primary |-> FALSE]

\* Rows of ids that a transaction other than w's has updated and not committed.
LockedByOthers(w, ids) ==
    \E v \in Workers \ {w} : tx[v].cleared \cap ids # {}

Adding == {v \in Workers : pc[v] \in {"add_update", "add_commit"}}

\* ------------------------------------------------------------- exchanges
NoExchange ==
    [op |-> "none", code |-> None, id |-> NoId, sp |-> FALSE, faces |-> NotRun,
     query |-> <<>>, known |-> 0,
     etype |-> None, edim |-> 0, encs |-> << >>, codes |-> << >>, listed |-> << >>,
     quality |-> PoorQuality,
     status |-> 0, success |-> FALSE, message |-> None, employee_code |-> None,
     confidence |-> 0, distance |-> NoDistance, embedding_id |-> NoId,
     is_primary |-> FALSE]

Finish(w, exchange) ==
    /\ pc' = [pc EXCEPT ![w] = "idle"]
    /\ req' = [req EXCEPT ![w] = IdleReq]
    /\ tx' = [tx EXCEPT ![w] = IdleTx]
    /\ last' = exchange

\* ------------------------------------------------------------- Init
IdleKiosk == [pc |-> "idle", code |-> None, today |-> NotRun, found |-> NoId]

\* The default configuration, empty attendance and schedule tables, no kiosk
\* request under way.
AppInit ==
    /\ FACE_RECOGNITION_TOLERANCE = ConfigTolerance
    /\ attendance = << >>
    /\ work_schedules = << >>
    /\ next_schedule_id = 1
    /\ now = 0
    /\ kiosk = [w \in Workers |-> IdleKiosk]

Init ==
    /\ AppInit
    /\ db = << >>
    /\ next_id = 1
    /\ tolerance = DefaultTolerance
    /\ legacy = [code \in Employees |-> << >>]
    /\ pc = [w \in Workers |-> "idle"]
    /\ req = [w \in Workers |-> IdleReq]
    /\ tx = [w \in Workers |-> IdleTx]
    /\ last = NoExchange

\* ------------------------------------------------------------- POST /register-multi
\* The body is missing, or has no employee_code, no image, or an image that
\* does not decode.
RegisterBadPayload(w, msg) ==
    /\ pc[w] = "idle"
    /\ Finish(w, [NoExchange EXCEPT !.op = "register", !.status = 400, !.message = msg])
    /\ UNCHANGED <<db, next_id, tolerance, app_vars, legacy>>

\* process_image reports n faces, n other than 1; 0 also when the detector
\* raises, because detect_faces then returns no location.
RegisterFaceCount(w, n) ==
    /\ pc[w] = "idle"
    /\ ~SingleFace(n)
    /\ Finish(w, [NoExchange EXCEPT !.op = "register", !.faces = n,
                                    !.status = 400, !.message = MsgOneFace])
    /\ UNCHANGED <<db, next_id, tolerance, app_vars, legacy>>

\* Mutant: the IndexError is not caught and the response carries no result.
RegisterNoEncodingUncaught(w) ==
    /\ pc[w] = "idle"
    /\ Finish(w, [NoExchange EXCEPT !.op = "register", !.faces = 1, !.status = 500])
    /\ UNCHANGED <<db, next_id, tolerance, app_vars, legacy>>

\* One face located, but get_face_encodings returned no encoding (the encoder
\* found none or raised): result_detect['face_encodings'][0] raises and the
\* handler answers 500.
RegisterNoEncoding(w) ==
    /\ pc[w] = "idle"
    /\ Finish(w, [NoExchange EXCEPT !.op = "register", !.faces = 1,
                                    !.status = 500, !.message = MsgRegisterCrash])
    /\ UNCHANGED <<db, next_id, tolerance, app_vars, legacy>>

\* add_face_embedding: the employee code matches no employee.
RegisterUnknownEmployee(w, code, n, sp) ==
    /\ pc[w] = "idle"
    /\ SingleFace(n)
    /\ ~EmployeeExists(code)
    /\ Finish(w, [NoExchange EXCEPT !.op = "register", !.faces = n, !.code = code,
                                    !.sp = sp, !.status = 400,
                                    !.message = MsgEmployeeNotFound,
                                    !.employee_code = code])
    /\ UNCHANGED <<db, next_id, tolerance, app_vars, legacy>>

\* add_face_embedding up to the construction of the row.  With set_as_primary
\* the UPDATE that clears the other primaries starts: its snapshot selects the
\* rows cand.  Without it has_any_embeddings counts the active rows.
AddBegin(w, code, n, sp, etype, quality) ==
    /\ pc[w] = "idle"
    /\ EmployeeExists(code)
    /\ next_id + Cardinality(Adding) <= MaxRecords
    /\ req' = [req EXCEPT ![w] = [op |-> "register", code |-> code, sp |-> sp, id |-> NoId,
                                  faces |-> n, etype |-> etype,
                                  quality |-> quality]]
    /\ IF sp
       THEN /\ pc' = [pc EXCEPT ![w] = "add_update"]
            /\ tx' = [tx EXCEPT ![w] = [IdleTx EXCEPT !.cand = PrimaryIds(db, code)]]
       ELSE /\ pc' = [pc EXCEPT ![w] = "add_commit"]
            /\ tx' = [tx EXCEPT ![w] = [IdleTx EXCEPT !.make_primary =
                                            MakePrimary(sp, HasAnyEmbeddings(db, code))]]
    /\ UNCHANGED <<db, next_id, tolerance, app_vars, legacy, last>>

\* The handler found one face and calls add_face_embedding with
\* embedding_type = 'standard' and without quality_score.
RegisterBegin(w, code, n, sp) ==
    /\ SingleFace(n)
    /\ AddBegin(w, code, n, sp, "standard", NoQuality)

\* The UPDATE takes the locks of the rows it selected (waiting while another
\* transaction holds one) and clears the flag of those that still match.
AddUpdate(w) ==
    /\ pc[w] = "add_update"
    /\ ~LockedByOthers(w, tx[w].cand)
    /\ LET ids == StillPrimary(db, tx[w].cand, req[w].code)
       IN  /\ tx' = [tx EXCEPT ![w] = [cand |-> {}, cleared |-> ids,
                                       make_primary |-> MakePrimary(req[w].sp, TRUE)]]
           /\ db' = Uncommitted(db, ids)
    /\ pc' = [pc EXCEPT ![w] = "add_commit"]
    /\ UNCHANGED <<next_id, tolerance, app_vars, legacy, req, last>>

\* session.add(face_embedding); session.commit() succeeds.
AddCommit(w, enc) ==
    /\ pc[w] = "add_commit"
    /\ db' = CommitAdd(db, tx[w].cleared, next_id,
                       NewRow(req[w].code, enc, req[w].etype, req[w].quality,
                              tx[w].make_primary))
    /\ next_id' = next_id + 1
    /\ Finish(w, [NoExchange EXCEPT !.op = "register", !.faces = req[w].faces,
                                    !.code = req[w].code, !.sp = req[w].sp,
                                    !.etype = req[w].etype,
                                    !.status = 200, !.success = TRUE,
                                    !.message = MsgAdded,
                                    !.employee_code = req[w].code,
                                    !.embedding_id = next_id,
                                    !.is_primary = tx[w].make_primary])
    /\ UNCHANGED <<tolerance, app_vars, legacy>>

\* The flush or the commit raises: session.rollback() and a failure result.
AddCommitFail(w) ==
    /\ pc[w] = "add_commit"
    /\ db' = RolledBack(db, tx[w].cleared)
    /\ Finish(w, [NoExchange EXCEPT !.op = "register", !.faces = req[w].faces,
                                    !.code = req[w].code, !.sp = req[w].sp,
                                    !.status = 400, !.message = MsgAddFailed,
                                    !.employee_code = req[w].code])
    /\ UNCHANGED <<next_id, tolerance, app_vars, legacy>>

\* ------------------------------------------------------------- PUT /embedding/<id>/primary
\* set_primary_embedding: no row has the id.
SetPrimaryNotFound(w, id) ==
    /\ pc[w] = "idle"
    /\ id \notin DOMAIN db
    /\ Finish(w, [NoExchange EXCEPT !.op = "set_primary", !.id = id, !.status = 400,
                                    !.message = MsgEmbeddingNotFound,
                                    !.embedding_id = id])
    /\ UNCHANGED <<db, next_id, tolerance, app_vars, legacy>>

\* The row is loaded and the UPDATE that clears the primaries of its employee
\* starts: its snapshot selects the rows cand.
SetPrimaryBegin(w, id) ==
    /\ pc[w] = "idle"
    /\ id \in DOMAIN db
    /\ req' = [req EXCEPT ![w] = [op |-> "set_primary", code |-> db[id].employee_code,
                                  sp |-> TRUE, id |-> id, faces |-> NotRun,
                                  etype |-> None, quality |-> NoQuality]]
    /\ tx' = [tx EXCEPT ![w] = [IdleTx EXCEPT !.cand = PrimaryIds(db, db[id].employee_code)]]
    /\ pc' = [pc EXCEPT ![w] = "setp_update"]
    /\ UNCHANGED <<db, next_id, tolerance, app_vars, legacy, last>>

SetPrimaryUpdate(w) ==
    /\ pc[w] = "setp_update"
    /\ ~LockedByOthers(w, tx[w].cand)
    /\ LET ids == StillPrimary(db, tx[w].cand, req[w].code)
       IN  /\ tx' = [tx EXCEPT ![w] = [cand |-> {}, cleared |-> ids, make_primary |-> TRUE]]
           /\ db' = Uncommitted(db, ids)
    /\ pc' = [pc EXCEPT ![w] = "setp_commit"]
    /\ UNCHANGED <<next_id, tolerance, app_vars, legacy, req, last>>

\* embedding.is_primary = True; session.commit() succeeds.  The flush updates
\* the row by its id: it waits while another transaction holds the row.
SetPrimaryCommit(w) ==
    /\ pc[w] = "setp_commit"
    /\ req[w].id \in DOMAIN db
    /\ ~LockedByOthers(w, {req[w].id})
    /\ db' = CommitPrimary(db, tx[w].cleared, req[w].id)
    /\ Finish(w, [NoExchange EXCEPT !.op = "set_primary", !.id = req[w].id,
                                    !.status = 200, !.success = TRUE,
                                    !.message = MsgPrimarySet,
                                    !.employee_code = req[w].code,
                                    !.embedding_id = req[w].id])
    /\ UNCHANGED <<next_id, tolerance, app_vars, legacy>>

\* The flush or the commit raises (also when the row was deleted meanwhile:
\* the UPDATE by id matches no row): session.rollback() and a failure result.
SetPrimaryCommitFail(w) ==
    /\ pc[w] = "setp_commit"
    /\ db' = RolledBack(db, tx[w].cleared)
    /\ Finish(w, [NoExchange EXCEPT !.op = "set_primary", !.id = req[w].id,
                                    !.status = 400, !.message = MsgPrimaryFailed,
                                    !.embedding_id = req[w].id])
    /\ UNCHANGED <<next_id, tolerance, app_vars, legacy>>

\* ------------------------------------------------------------- DELETE /embedding/<id>
\* Mutant: the row is not looked up and the deletion is reported done.
DeleteUnknownReportedDone(w, id) ==
    /\ pc[w] = "idle"
    /\ id \notin DOMAIN db
    /\ Finish(w, [NoExchange EXCEPT !.op = "delete", !.id = id, !.status = 200,
                                    !.success = TRUE, !.message = MsgDeleted,
                                    !.embedding_id = id])
    /\ UNCHANGED <<db, next_id, tolerance, app_vars, legacy>>

\* delete_face_embedding: no row has the id.
DeleteNotFound(w, id) ==
    /\ pc[w] = "idle"
    /\ id \notin DOMAIN db
    /\ Finish(w, [NoExchange EXCEPT !.op = "delete", !.id = id, !.status = 400,
                                    !.message = MsgEmbeddingNotFound,
                                    !.embedding_id = id])
    /\ UNCHANGED <<db, next_id, tolerance, app_vars, legacy>>

DeleteBegin(w, id) ==
    /\ pc[w] = "idle"
    /\ id \in DOMAIN db
    /\ req' = [req EXCEPT ![w] = [op |-> "delete", code |-> db[id].employee_code,
                                  sp |-> FALSE, id |-> id, faces |-> NotRun,
                                  etype |-> None, quality |-> NoQuality]]
    /\ pc' = [pc EXCEPT ![w] = "del_commit"]
    /\ UNCHANGED <<db, next_id, tolerance, app_vars, legacy, tx, last>>

\* session.delete(embedding); session.commit() succeeds.  The DELETE by id
\* waits while another transaction holds the row; a row that is already gone
\* is only warned about.
DeleteCommit(w) ==
    /\ pc[w] = "del_commit"
    /\ ~LockedByOthers(w, {req[w].id})
    /\ db' = DeleteRow(db, req[w].id)
    /\ Finish(w, [NoExchange EXCEPT !.op = "delete", !.id = req[w].id,
                                    !.status = 200, !.success = TRUE,
                                    !.message = MsgDeleted,
                                    !.employee_code = req[w].code,
                                    !.embedding_id = req[w].id])
    /\ UNCHANGED <<next_id, tolerance, app_vars, legacy>>

DeleteCommitFail(w) ==
    /\ pc[w] = "del_commit"
    /\ Finish(w, [NoExchange EXCEPT !.op = "delete", !.id = req[w].id,
                                    !.status = 400, !.message = MsgDeleteFailed,
                                    !.embedding_id = req[w].id])
    /\ UNCHANGED <<db, next_id, tolerance, app_vars, legacy>>

\* ------------------------------------------------------------- distances
RECURSIVE SqrtBetween(_, _, _)
SqrtBetween(n, lo, hi) ==
    IF lo >= hi THEN lo
    ELSE LET mid == (lo + hi + 1) \div 2
         IN  IF mid * mid <= n THEN SqrtBetween(n, mid, hi)
                               ELSE SqrtBetween(n, lo, mid - 1)

RECURSIVE SumSquares(_, _, _)
SumSquares(a, b, k) ==
    IF k = 0 THEN 0
    ELSE (a[k] - b[k]) * (a[k] - b[k]) + SumSquares(a, b, k - 1)

\* Mutant: the norm of the sum of the two vectors.
FaceDistanceOfSum(a, b) ==
    LET n == 10000 * SumSquares(a, [k \in 1..Len(b) |-> 0 - b[k]], Len(a))
    IN  SqrtBetween(n, 0, IF n < 40000 THEN n ELSE 40000)

\* numpy.linalg.norm(a - b): the Euclidean distance, in thousandths (the
\* coordinates are tenths, so 1000 * d = sqrt(10000 * sum of squares)).
FaceDistance(a, b) ==
    LET n == 10000 * SumSquares(a, b, Len(a))
    IN  SqrtBetween(n, 0, IF n < 40000 THEN n ELSE 40000)

\* numpy broadcasting: a vector of one coordinate is repeated over n.
Broadcast(v, n) == IF Len(v) = n THEN v ELSE [k \in 1..n |-> v[1]]

\* FaceDetector.find_face_distance, that is numpy.linalg.norm(known - q,
\* axis = 1) behind a try: no known encoding gives the empty list; so do known
\* encodings of several lengths (no array can be made of them) and a query
\* whose shape does not broadcast against theirs, because the library raises.
\* A query, or known encodings, of one coordinate broadcast.
FindFaceDistance(q, known) ==
    IF known = << >> THEN << >>
    ELSE LET n == Len(known[1])
             m == IF n > Len(q) THEN n ELSE Len(q)
         IN  IF \E k \in 1..Len(known) : Len(known[k]) # n THEN << >>
             ELSE IF Len(q) # n /\ Len(q) # 1 /\ n # 1 THEN << >>
             ELSE [k \in 1..Len(known) |->
                       FaceDistance(Broadcast(known[k], m), Broadcast(q, m))]

\* min(distances)
RECURSIVE ListMin(_, _)
ListMin(ds, k) ==
    IF k = 1 THEN ds[1]
    ELSE LET m == ListMin(ds, k - 1) IN IF ds[k] < m THEN ds[k] ELSE m

\* Mutant: the last position holding v.
ListIndexLast(ds, v) ==
    CHOOSE k \in 1..Len(ds) : ds[k] = v /\ \A j \in (k + 1)..Len(ds) : ds[j] # v

\* distances.index(v): the first position holding v
ListIndex(ds, v) ==
    CHOOSE k \in 1..Len(ds) : ds[k] = v /\ \A j \in 1..(k - 1) : ds[j] # v

\* Mutant: min_distance <= tolerance.
WithinToleranceInclusive(d, tol) == d <= tol

\* min_distance < self.face_detector.tolerance
WithinTolerance(d, tol) == d < tol

\* Mutant: the floor is 0.5.
ConfidentAtHalf(c) == 2 * c >= Unit

\* Mutant: the floor is 0.75.
ConfidentAtThreeQuarters(c) == 4 * c >= 3 * Unit

\* confidence >= 0.6
ConfidentEnough(c) == c >= ConfidenceFloor

\* ------------------------------------------------------------- the gallery
\* The orders in which a query without ORDER BY can return the rows ids.
ScanOrders(ids) ==
    {o \in [1..Cardinality(ids) -> ids] : \A i, j \in DOMAIN o : i # j => o[i] # o[j]}

\* Mutant: the length of the vectors is not looked at.
GetAllIgnoringDim(d, scan, etype, edim) ==
    LET Keep(i) == /\ d[i].is_active
                   /\ etype # None => d[i].embedding_type = etype
        kept == SelectSeq(scan, Keep)
    IN  [encs |-> [k \in 1..Len(kept) |-> d[kept[k]].embedding],
         codes |-> [k \in 1..Len(kept) |-> d[kept[k]].employee_code]]

\* get_all_face_embeddings_multi(embedding_type, embedding_dim) over the rows
\* of d in the order scan; None and 0 are the arguments left out.
GetAllFaceEmbeddingsMulti(d, scan, etype, edim) ==
    LET Keep(i) == /\ d[i].is_active
                   /\ etype # None => d[i].embedding_type = etype
                   /\ edim # 0 => Len(d[i].embedding) = edim
        kept == SelectSeq(scan, Keep)
    IN  [encs |-> [k \in 1..Len(kept) |-> d[kept[k]].embedding],
         codes |-> [k \in 1..Len(kept) |-> d[kept[k]].employee_code]]

\* ------------------------------------------------------------- GET /embeddings/<code>
\* ORDER BY created_at DESC: a row inserted later has the greater id and the
\* later created_at.
RECURSIVE NewestFirst(_)
NewestFirst(ids) ==
    IF ids = {} THEN << >>
    ELSE LET newest == CHOOSE i \in ids : \A j \in ids : j <= i
         IN  <<newest>> \o NewestFirst(ids \ {newest})

\* Mutant: ORDER BY created_at DESC alone.
GetAllEmbeddingsByAge(d, code, active_only) ==
    NewestFirst({i \in RowsOf(d, code) : active_only => d[i].is_active})

\* FaceEmbedding.get_all_embeddings: the rows of the employee, the active ones
\* only if asked, ORDER BY is_primary DESC, created_at DESC
GetAllEmbeddings(d, code, active_only) ==
    LET rows == {i \in RowsOf(d, code) : active_only => d[i].is_active}
    IN  NewestFirst({i \in rows : d[i].is_primary})
            \o NewestFirst({i \in rows : ~d[i].is_primary})

\* The handler lists get_employee_embeddings(code, active_only = True).
ListEmbeddings(code) ==
    /\ LET l == GetAllEmbeddings(db, code, TRUE)
       IN  last' = [NoExchange EXCEPT !.op = "list", !.code = code, !.status = 200,
                                      !.success = TRUE, !.employee_code = code,
                                      !.known = Len(l), !.listed = l]
    /\ UNCHANGED <<db, next_id, tolerance, app_vars, legacy, pc, req, tx>>

\* The query raises: get_employee_embeddings logs the error and returns [],
\* which the handler lists.
ListEmbeddingsReadFailure(code) ==
    /\ last' = [NoExchange EXCEPT !.op = "list", !.code = code, !.status = 200,
                                  !.success = TRUE, !.employee_code = code,
                                  !.message = MsgListFailed]
    /\ UNCHANGED <<db, next_id, tolerance, app_vars, legacy, pc, req, tx>>

\* ------------------------------------------------------------- the matcher
\* Mutant: the empty gallery is not tested for.
NeverEmpty(encs) == FALSE

\* if not known_encodings
NoKnownEncodings(encs) == encs = << >>

\* recognize_employee_multi after the gallery is read: the result dictionary.
RecognizeResult(q, encs, codes, tol) ==
    LET failed == [success |-> FALSE, employee_code |-> None, confidence |-> 0,
                   distance |-> NoDistance]
    IN
    IF NoKnownEncodings(encs)
    THEN failed @@ [message |-> MsgNoRegistered]
    ELSE LET distances == FindFaceDistance(q, encs) IN
    IF distances = << >>
    THEN failed @@ [message |-> MsgNoDistances]
    ELSE LET min_distance == ListMin(distances, Len(distances))
             best_match_index == ListIndex(distances, min_distance)
             confidence == Unit - min_distance
         IN
         IF WithinTolerance(min_distance, tol)
         THEN IF ConfidentEnough(confidence)
              THEN [success |-> TRUE, message |-> MsgRecognized,
                    employee_code |-> codes[best_match_index],
                    confidence |-> confidence, distance |-> min_distance]
              ELSE [success |-> FALSE, message |-> MsgLowConfidence,
                    employee_code |-> None,
                    confidence |-> confidence, distance |-> min_distance]
         ELSE [success |-> FALSE, message |-> MsgNoMatch, employee_code |-> None,
               confidence |-> 0, distance |-> min_distance]

RecognizeExchange(q, gallery, tol) ==
    LET r == RecognizeResult(q, gallery.encs, gallery.codes, tol)
    IN  [NoExchange EXCEPT !.op = "recognize", !.faces = 1, !.query = q,
                           !.known = Len(gallery.encs),
                           !.status = 200, !.success = r.success,
                           !.message = r.message,
                           !.employee_code = r.employee_code,
                           !.confidence = r.confidence, !.distance = r.distance]

\* ------------------------------------------------------------- POST /recognize
RecognizeBadPayload(msg) ==
    /\ msg # MsgCodeRequired
    /\ last' = [NoExchange EXCEPT !.op = "recognize", !.status = 400, !.message = msg]
    /\ UNCHANGED <<db, next_id, tolerance, app_vars, legacy, pc, req, tx>>

RecognizeFaceCount(n) ==
    /\ n # 1
    /\ last' = [NoExchange EXCEPT !.op = "recognize", !.faces = n, !.status = 400,
                                  !.message = IF n = 0 THEN MsgNoFace ELSE MsgManyFaces]
    /\ UNCHANGED <<db, next_id, tolerance, app_vars, legacy, pc, req, tx>>

\* One face located but no encoding returned: face_encodings[0] raises.
RecognizeNoEncoding ==
    /\ last' = [NoExchange EXCEPT !.op = "recognize", !.faces = 1, !.status = 500,
                                  !.message = MsgRecognizeCrash]
    /\ UNCHANGED <<db, next_id, tolerance, app_vars, legacy, pc, req, tx>>

\* Mutant: the recognition clears the primary flags it has read.
RecognizeAndClear(q, scan) ==
    /\ last' = RecognizeExchange(q, GetAllFaceEmbeddingsMulti(db, scan, None, 0), tolerance)
    /\ db' = ClearPrimary(db, DOMAIN db)
    /\ UNCHANGED <<next_id, tolerance, app_vars, legacy, pc, req, tx>>

\* recognize_employee_multi(face_encoding, use_multi_embedding = True) in a
\* session of its own: the gallery is read from the committed rows.
Recognize(q, scan) ==
    /\ last' = RecognizeExchange(q, GetAllFaceEmbeddingsMulti(db, scan, None, 0), tolerance)
    /\ UNCHANGED <<db, next_id, tolerance, app_vars, legacy, pc, req, tx>>

\* The gallery query raises: get_all_face_embeddings_multi returns ([], []).
RecognizeReadFailure(q) ==
    /\ last' = RecognizeExchange(q, [encs |-> << >>, codes |-> << >>], tolerance)
    /\ UNCHANGED <<db, next_id, tolerance, app_vars, legacy, pc, req, tx>>

\* ------------------------------------------------------------- FaceService called directly
\* Arguments of the methods of FaceService that no handler restricts.
ServiceEncodings == {<<0, 0>>, <<3, 0>>, <<0, 0, 0>>}
ServiceQueries == {<<0>>, <<0, 0>>, <<0, 0, 0>>}
LegacyEncodings == {<<0, 0>>}
GalleryTypes == EmbeddingTypes \cup {None}
GalleryDims == {0, StandardDim, DeepfaceDim}

\* add_face_embedding(employee_code, embedding, embedding_type = etype), with
\* set_as_primary left at its default
ServiceAddBegin(w, code, etype) ==
    AddBegin(w, code, NotRun, FALSE, etype, NoQuality)

\* Face regions the quality gate measures: (sharpness, brightness, contrast,
\* face ratio) of a poor one, of one on the thresholds and of a good one.
GateRegions == {<<0, 0, 0, 1>>, <<100, 50, 30, 100>>, <<101, 51, 31, 101>>}

\* add_face_embedding(employee_code, embedding, quality_score = the score the
\* quality gate gave the face region)
ServiceAddGated(w, code, region) ==
    AddBegin(w, code, NotRun, FALSE, "standard",
             DetectFaceQuality(region[1], region[2], region[3], region[4]).quality_score)

\* get_all_face_embeddings_multi(etype, edim) and what it returns.
Gallery(etype, edim, scan) ==
    /\ LET g == GetAllFaceEmbeddingsMulti(db, scan, etype, edim)
       IN  last' = [NoExchange EXCEPT !.op = "gallery", !.etype = etype, !.edim = edim,
                                      !.known = Len(g.encs),
                                      !.encs = g.encs, !.codes = g.codes]
    /\ UNCHANGED <<db, next_id, tolerance, app_vars, legacy, pc, req, tx>>

\* register_employee_face: the encoding is written to the row of the employee
\* and committed.
RegisterEmployeeFace(w, code, enc) ==
    /\ pc[w] = "idle"
    /\ EmployeeExists(code)
    /\ legacy' = [legacy EXCEPT ![code] = enc]
    /\ last' = [NoExchange EXCEPT !.op = "register_legacy", !.code = code,
                                  !.success = TRUE, !.employee_code = code]
    /\ UNCHANGED <<db, next_id, tolerance, app_vars, pc, req, tx>>

\* register_employee_face: no such employee, or the commit raises and the
\* session is rolled back.
RegisterEmployeeFaceFail(w, code) ==
    /\ pc[w] = "idle"
    /\ last' = [NoExchange EXCEPT !.op = "register_legacy", !.code = code,
                                  !.employee_code = code,
                                  !.message = IF EmployeeExists(code)
                                              THEN MsgRegisterFailed
                                              ELSE MsgEmployeeNotFound]
    /\ UNCHANGED <<db, next_id, tolerance, app_vars, legacy, pc, req, tx>>

\* get_all_face_encodings over the employees in the order scan: the rows whose
\* face_encoding is not NULL.
GetAllFaceEncodings(l, scan) ==
    LET kept == SelectSeq(scan, LAMBDA c : l[c] # << >>)
    IN  [encs |-> [k \in 1..Len(kept) |-> l[kept[k]]], codes |-> kept]

\* Mutant: a least distance below the tolerance is a recognition, whatever
\* the confidence.
RecognizeLegacyNoFloor(q, encs, codes, tol) ==
    LET failed == [success |-> FALSE, employee_code |-> None, confidence |-> 0,
                   distance |-> NoDistance]
    IN
    IF encs = << >>
    THEN failed @@ [message |-> MsgNoRegistered]
    ELSE LET distances == FindFaceDistance(q, encs) IN
    IF distances = << >>
    THEN failed @@ [message |-> MsgNoDistances]
    ELSE LET min_distance == ListMin(distances, Len(distances))
             best_match_index == ListIndex(distances, min_distance)
         IN
         IF min_distance < tol
         THEN [success |-> TRUE, message |-> MsgRecognized,
               employee_code |-> codes[best_match_index],
               confidence |-> Unit - min_distance, distance |-> min_distance]
         ELSE [success |-> FALSE, message |-> MsgNoMatch, employee_code |-> None,
               confidence |-> 0, distance |-> min_distance]

\* recognize_employee after get_all_face_encodings: the result dictionary.
RecognizeLegacyResult(q, encs, codes, tol) ==
    LET failed == [success |-> FALSE, employee_code |-> None, confidence |-> 0,
                   distance |-> NoDistance]
    IN
    IF encs = << >>
    THEN failed @@ [message |-> MsgNoRegistered]
    ELSE LET distances == FindFaceDistance(q, encs) IN
    IF distances = << >>
    THEN failed @@ [message |-> MsgNoDistances]
    ELSE LET min_distance == ListMin(distances, Len(distances))
             best_match_index == ListIndex(distances, min_distance)
         IN
         IF min_distance < tol
         THEN LET confidence == Unit - min_distance IN
              IF confidence >= ConfidenceFloor
              THEN [success |-> TRUE, message |-> MsgRecognized,
                    employee_code |-> codes[best_match_index],
                    confidence |-> confidence, distance |-> min_distance]
              ELSE [success |-> FALSE, message |-> MsgLowConfidence,
                    employee_code |-> None,
                    confidence |-> confidence, distance |-> min_distance]
         ELSE [success |-> FALSE, message |-> MsgNoMatch, employee_code |-> None,
               confidence |-> 0, distance |-> min_distance]

\* recognize_employee(face_encoding) over the encodings of the employees table.
RecognizeLegacy(q, scan) ==
    /\ LET g == GetAllFaceEncodings(legacy, scan)
           r == RecognizeLegacyResult(q, g.encs, g.codes, tolerance)
       IN  last' = [NoExchange EXCEPT !.op = "recognize_legacy", !.faces = 1,
                                      !.query = q, !.known = Len(g.encs),
                                      !.status = 200, !.success = r.success,
                                      !.message = r.message,
                                      !.employee_code = r.employee_code,
                                      !.confidence = r.confidence,
                                      !.distance = r.distance]
    /\ UNCHANGED <<db, next_id, tolerance, app_vars, legacy, pc, req, tx>>

\* recognize_employee_multi(face_encoding, use_multi_embedding = False): the
\* decision of the multi-embedding recogniser over the encodings of the
\* employees table.
RecognizeFallback(q, scan) ==
    /\ last' = [RecognizeExchange(q, GetAllFaceEncodings(legacy, scan), tolerance)
                   EXCEPT !.op = "recognize_fallback"]
    /\ UNCHANGED <<db, next_id, tolerance, app_vars, legacy, pc, req, tx>>

\* ------------------------------------------------------------- detect_face_quality
FaceQualityMeasured(sharpness, brightness, contrast, face_ratio) ==
    /\ last' = [NoExchange EXCEPT !.op = "quality", !.success = TRUE,
                   !.quality = DetectFaceQuality(sharpness, brightness, contrast, face_ratio)]
    /\ UNCHANGED <<db, next_id, tolerance, app_vars, legacy, pc, req, tx>>

\* The face location selects no pixel of the image.
FaceQualityEmptyRegion ==
    /\ last' = [NoExchange EXCEPT !.op = "quality", !.success = TRUE]
    /\ UNCHANGED <<db, next_id, tolerance, app_vars, legacy, pc, req, tx>>

\* A step of the measurement raises (an image without colour channels, say).
FaceQualityFailed ==
    /\ last' = [NoExchange EXCEPT !.op = "quality", !.message = MsgQualityFailed]
    /\ UNCHANGED <<db, next_id, tolerance, app_vars, legacy, pc, req, tx>>

\* ------------------------------------------------------------- the kiosk
\* timestamp.date(): the day a tick of the clock falls in.
Date(t) == t \div DayTicks

\* Employee.get_current_schedule reads work_schedules.filter_by(is_active =
\* True).first(): one of these rows.
ActiveSchedules(code) ==
    {s \in DOMAIN work_schedules :
        work_schedules[s].employee_code = code /\ work_schedules[s].is_active}

\* WorkSchedule.is_effective_on
IsEffectiveOn(s, on_date) ==
    /\ ~(s.effective_from # NoDate /\ on_date < s.effective_from)
    /\ ~(s.effective_to # NoDate /\ on_date > s.effective_to)

\* WorkSchedule.is_weekday_allowed: work_days is the set the CSV string lists,
\* empty when the column is NULL.
IsWeekdayAllowed(s, weekday) == s.work_days = {} \/ weekday \in s.work_days

\* Attendance.query.filter_by(employee_id, date = today).first() returns one of
\* these rows, or None when there is none.
TodayAttendance(code, today) ==
    {a \in DOMAIN attendance :
        attendance[a].employee_code = code /\ attendance[a].date = today}

\* Mutant: a row never counts as checked in.
HasCheckInNever(a) == FALSE

\* attendance.check_in_time is not None
HasCheckIn(a) == a.check_in_time # NoTime

\* The JSON body and status of a kiosk response; 'status': 'success' is the
\* success flag.
KioskReply(op, code, status, message, id) ==
    [NoExchange EXCEPT !.op = op, !.code = code, !.status = status,
                       !.success = (status = 200), !.message = message, !.id = id]

KioskDone(w, reply) ==
    /\ kiosk' = [kiosk EXCEPT ![w] = IdleKiosk]
    /\ last' = reply

\* POST /kiosk/check-in up to the decision to stamp: the employee, the
\* schedule, the day and the attendance row of today are read.
CheckInBegin(w, code) ==
    /\ kiosk[w].pc = "idle"
    /\ LET today == Date(now)
           Refuse(status, message) ==
               KioskDone(w, KioskReply("check_in", code, status, message, NoId))
       IN  IF code = None THEN Refuse(400, "employee_code is required")
           ELSE IF code \notin Employees THEN Refuse(404, "Employee not found")
           ELSE IF ActiveSchedules(code) = {} THEN Refuse(403, "no active schedule")
           ELSE \E s \in ActiveSchedules(code) :
                IF ~IsEffectiveOn(work_schedules[s], today)
                THEN Refuse(403, "schedule not effective today")
                ELSE IF ~IsWeekdayAllowed(work_schedules[s], today % 7)
                THEN Refuse(403, "not a work day")
                ELSE IF TodayAttendance(code, today) = {}
                THEN /\ kiosk' = [kiosk EXCEPT ![w] =
                                     [pc |-> "check_in_commit", code |-> code,
                                      today |-> today, found |-> NoId]]
                     /\ UNCHANGED last
                ELSE \E a \in TodayAttendance(code, today) :
                     IF HasCheckIn(attendance[a])
                     THEN KioskDone(w, KioskReply("check_in", code, 409,
                                                 "Already checked in", a))
                     ELSE /\ kiosk' = [kiosk EXCEPT ![w] =
                                          [pc |-> "check_in_commit", code |-> code,
                                           today |-> today, found |-> a]]
                          /\ UNCHANGED last
    /\ UNCHANGED <<db, next_id, tolerance, legacy, pc, req, tx>>
    /\ UNCHANGED <<FACE_RECOGNITION_TOLERANCE, attendance, work_schedules,
                   next_schedule_id, now>>

\* attendance.check_in(): check_in_time = datetime.now() and date =
\* timestamp.date(); db.session.commit() inserts the new row or updates the
\* row read.  The derived columns status and working_hours are left out.
CheckInCommit(w) ==
    /\ kiosk[w].pc = "check_in_commit"
    /\ LET found == kiosk[w].found
           row == [employee_code |-> kiosk[w].code, date |-> Date(now),
                   check_in_time |-> now, check_out_time |-> NoTime]
       IN  /\ attendance' =
                  IF found = NoId THEN Append(attendance, row)
                  ELSE [attendance EXCEPT ![found] =
                           [@ EXCEPT !.check_in_time = now, !.date = Date(now)]]
           /\ KioskDone(w, KioskReply("check_in", kiosk[w].code, 200,
                                      "Check-in successful",
                                      IF found = NoId THEN Len(attendance) + 1
                                                      ELSE found))
    /\ UNCHANGED <<db, next_id, tolerance, legacy, pc, req, tx>>
    /\ UNCHANGED <<FACE_RECOGNITION_TOLERANCE, work_schedules, next_schedule_id, now>>

\* POST /kiosk/check-out up to the decision to stamp.
CheckOutBegin(w, code) ==
    /\ kiosk[w].pc = "idle"
    /\ LET today == Date(now)
           rows == TodayAttendance(code, today)
           Refuse(status, message, id) ==
               KioskDone(w, KioskReply("check_out", code, status, message, id))
       IN  IF code = None THEN Refuse(400, "employee_code is required", NoId)
           ELSE IF code \notin Employees THEN Refuse(404, "Employee not found", NoId)
           ELSE IF ActiveSchedules(code) = {} THEN Refuse(403, "no active schedule", NoId)
           ELSE IF rows = {} THEN Refuse(409, "No check-in found for today", NoId)
           ELSE \E a \in rows :
                IF ~HasCheckIn(attendance[a])
                THEN Refuse(409, "No check-in found for today", a)
                ELSE IF attendance[a].check_out_time # NoTime
                THEN Refuse(409, "Already checked out", a)
                ELSE /\ kiosk' = [kiosk EXCEPT ![w] =
                                     [pc |-> "check_out_commit", code |-> code,
                                      today |-> today, found |-> a]]
                     /\ UNCHANGED last
    /\ UNCHANGED <<db, next_id, tolerance, legacy, pc, req, tx>>
    /\ UNCHANGED <<FACE_RECOGNITION_TOLERANCE, attendance, work_schedules,
                   next_schedule_id, now>>

\* attendance.check_out(): check_out_time = datetime.now();
\* db.session.commit() updates the row read.
CheckOutCommit(w) ==
    /\ kiosk[w].pc = "check_out_commit"
    /\ attendance' = [attendance EXCEPT ![kiosk[w].found].check_out_time = now]
    /\ KioskDone(w, KioskReply("check_out", kiosk[w].code, 200,
                               "Check-out successful", kiosk[w].found))
    /\ UNCHANGED <<db, next_id, tolerance, legacy, pc, req, tx>>
    /\ UNCHANGED <<FACE_RECOGNITION_TOLERANCE, work_schedules, next_schedule_id, now>>

\* The clock of the server advances.
Tick ==
    /\ now < MaxTime
    /\ now' = now + 1
    /\ UNCHANGED <<db, next_id, tolerance, legacy, pc, req, tx, last>>
    /\ UNCHANGED <<FACE_RECOGNITION_TOLERANCE, attendance, work_schedules,
                   next_schedule_id, kiosk>>

\* ------------------------------------------------------------- the schedules
\* Mutant: no schedule is deactivated.
OtherActiveNone(code, schedule_id) == {}

\* The active schedules of the employee other than schedule_id, which the
\* handlers set inactive when the form has is_active on.
OtherActive(code, schedule_id) == ActiveSchedules(code) \ {schedule_id}

\* POST /admin/schedules/new: a form without employee or with effective_from
\* after effective_to is shown again; an employee_id no employee has fails
\* the foreign key at the commit; else the other active schedules of the
\* employee are set inactive when the form is active, and the row is added.
ScheduleNew(code, is_active, from, to) ==
    /\ next_schedule_id <= MaxSchedules
    /\ LET reply == [NoExchange EXCEPT !.op = "schedule_new", !.code = code]
           row == [employee_code |-> code, is_active |-> is_active,
                   effective_from |-> from, effective_to |-> to, work_days |-> {}]
           off == IF is_active THEN OtherActive(code, NoId) ELSE {}
       IN  IF code = None \/ (from # NoDate /\ to # NoDate /\ from > to)
           THEN /\ last' = [reply EXCEPT !.status = 200]
                /\ UNCHANGED <<work_schedules, next_schedule_id>>
           ELSE IF code \notin Employees
           THEN /\ last' = [reply EXCEPT !.status = 500]
                /\ UNCHANGED <<work_schedules, next_schedule_id>>
           ELSE /\ work_schedules' =
                      [i \in DOMAIN work_schedules \cup {next_schedule_id} |->
                          IF i = next_schedule_id THEN row
                          ELSE IF i \in off
                               THEN [work_schedules[i] EXCEPT !.is_active = FALSE]
                               ELSE work_schedules[i]]
                /\ next_schedule_id' = next_schedule_id + 1
                /\ last' = [reply EXCEPT !.status = 302, !.success = TRUE,
                                         !.id = next_schedule_id]
    /\ UNCHANGED <<db, next_id, tolerance, legacy, pc, req, tx>>
    /\ UNCHANGED <<FACE_RECOGNITION_TOLERANCE, attendance, now, kiosk>>

\* POST /admin/schedules/<schedule_id>/edit: 404 without the row; the checks
\* of schedule_new; the other active schedules of the employee of the form
\* are set inactive when the form is active, and the row takes the form's
\* employee, limits and is_active.
ScheduleEdit(schedule_id, code, is_active, from, to) ==
    /\ LET reply == [NoExchange EXCEPT !.op = "schedule_edit", !.code = code,
                                       !.id = schedule_id]
           off == IF is_active THEN OtherActive(code, schedule_id) ELSE {}
       IN  IF schedule_id \notin DOMAIN work_schedules
           THEN /\ last' = [reply EXCEPT !.status = 404]
                /\ UNCHANGED work_schedules
           ELSE IF code = None \/ (from # NoDate /\ to # NoDate /\ from > to)
           THEN /\ last' = [reply EXCEPT !.status = 200]
                /\ UNCHANGED work_schedules
           ELSE IF code \notin Employees
           THEN /\ last' = [reply EXCEPT !.status = 500]
                /\ UNCHANGED work_schedules
           ELSE /\ work_schedules' =
                      [i \in DOMAIN work_schedules |->
                          IF i = schedule_id
                          THEN [work_schedules[i] EXCEPT
                                   !.employee_code = code, !.is_active = is_active,
                                   !.effective_from = from, !.effective_to = to]
                          ELSE IF i \in off
                               THEN [work_schedules[i] EXCEPT !.is_active = FALSE]
                               ELSE work_schedules[i]]
                /\ last' = [reply EXCEPT !.status = 302, !.success = TRUE]
    /\ UNCHANGED <<db, next_id, tolerance, legacy, pc, req, tx>>
    /\ UNCHANGED <<FACE_RECOGNITION_TOLERANCE, attendance, next_schedule_id, now, kiosk>>

\* POST /admin/schedules/<schedule_id>/delete: 404 without the row, else the
\* row is deleted.
ScheduleDelete(schedule_id) ==
    /\ LET reply == [NoExchange EXCEPT !.op = "schedule_delete", !.id = schedule_id]
       IN  IF schedule_id \notin DOMAIN work_schedules
           THEN /\ last' = [reply EXCEPT !.status = 404]
                /\ UNCHANGED work_schedules
           ELSE /\ work_schedules' =
                      [i \in DOMAIN work_schedules \ {schedule_id} |-> work_schedules[i]]
                /\ last' = [reply EXCEPT !.status = 302, !.success = TRUE,
                                         !.code = work_schedules[schedule_id].employee_code]
    /\ UNCHANGED <<db, next_id, tolerance, legacy, pc, req, tx>>
    /\ UNCHANGED <<FACE_RECOGNITION_TOLERANCE, attendance, next_schedule_id, now, kiosk>>

\* ------------------------------------------------------------- specifications
Write(w) ==
    \/ \E msg \in BadPayloads : RegisterBadPayload(w, msg)
    \/ \E n \in 0..MaxFaces : RegisterFaceCount(w, n)
    \/ RegisterNoEncoding(w)
    \/ \E code \in Codes, n \in 0..MaxFaces, sp \in BOOLEAN :
           RegisterUnknownEmployee(w, code, n, sp)
    \/ \E code \in Codes, n \in 0..MaxFaces, sp \in BOOLEAN : RegisterBegin(w, code, n, sp)
    \/ AddUpdate(w)
    \/ \E enc \in EnrollEncodings : AddCommit(w, enc)
    \/ AddCommitFail(w)
    \/ \E id \in Ids : SetPrimaryNotFound(w, id)
    \/ \E id \in Ids : SetPrimaryBegin(w, id)
    \/ SetPrimaryUpdate(w)
    \/ SetPrimaryCommit(w)
    \/ SetPrimaryCommitFail(w)
    \/ \E id \in Ids : DeleteNotFound(w, id)
    \/ \E id \in Ids : DeleteBegin(w, id)
    \/ DeleteCommit(w)
    \/ DeleteCommitFail(w)

Read ==
    \/ \E msg \in BadPayloads : RecognizeBadPayload(msg)
    \/ \E n \in 0..MaxFaces : RecognizeFaceCount(n)
    \/ RecognizeNoEncoding
    \/ \E q \in Encodings, scan \in ScanOrders(DOMAIN db) : Recognize(q, scan)
    \/ \E q \in Encodings : RecognizeReadFailure(q)

List ==
    \/ \E code \in Codes : ListEmbeddings(code)
    \/ \E code \in Codes : ListEmbeddingsReadFailure(code)

\* Requests served concurrently, one thread and one session each.
Next == (\E w \in Workers : Write(w)) \/ Read \/ List

Spec == Init /\ [][Next]_vars

\* The mutating requests served one at a time, by one thread; recognitions
\* at any moment.
SerialWorker == CHOOSE w \in Workers : TRUE

SerialNext == Write(SerialWorker) \/ Read \/ List

SerialSpec == Init /\ [][SerialNext]_vars

\* The mutating requests one at a time and the recognitions, for a detector
\* constructed with any of the tolerances.
MatcherNext == Write(SerialWorker) \/ Read

MatcherInit ==
    /\ AppInit
    /\ db = << >>
    /\ next_id = 1
    /\ tolerance \in Tolerances
    /\ legacy = [code \in Employees |-> << >>]
    /\ pc = [w \in Workers |-> "idle"]
    /\ req = [w \in Workers |-> IdleReq]
    /\ tx = [w \in Workers |-> IdleTx]
    /\ last = NoExchange

MatcherSpec == MatcherInit /\ [][MatcherNext]_vars

\* The methods of FaceService called one at a time with any arguments.
ServiceWrite(w) ==
    \/ \E code \in Employees, etype \in EmbeddingTypes : ServiceAddBegin(w, code, etype)
    \/ \E enc \in ServiceEncodings : AddCommit(w, enc)
    \/ AddCommitFail(w)

ServiceRead ==
    \/ \E q \in ServiceQueries, scan \in ScanOrders(DOMAIN db) : Recognize(q, scan)
    \/ \E etype \in GalleryTypes, edim \in GalleryDims, scan \in ScanOrders(DOMAIN db) :
           Gallery(etype, edim, scan)

ServiceNext == ServiceWrite(SerialWorker) \/ ServiceRead

ServiceSpec == Init /\ [][ServiceNext]_vars

\* The two recognisers, recognize_employee_multi over the face_embeddings
\* table and recognize_employee over the encodings of the employees table,
\* with the requests that fill the two, for a detector of any of the
\* tolerances or of the least positive one, 0.001.
DetectorTolerances == Tolerances \cup {1}

RecognizerInit ==
    /\ AppInit
    /\ db = << >>
    /\ next_id = 1
    /\ tolerance \in DetectorTolerances
    /\ legacy = [code \in Employees |-> << >>]
    /\ pc = [w \in Workers |-> "idle"]
    /\ req = [w \in Workers |-> IdleReq]
    /\ tx = [w \in Workers |-> IdleTx]
    /\ last = NoExchange

RecognizerWrite(w) ==
    \/ \E code \in Codes, n \in 0..MaxFaces, sp \in BOOLEAN : RegisterBegin(w, code, n, sp)
    \/ AddUpdate(w)
    \/ \E enc \in EnrollEncodings : AddCommit(w, enc)
    \/ AddCommitFail(w)
    \/ \E code \in Employees, enc \in LegacyEncodings : RegisterEmployeeFace(w, code, enc)
    \/ \E code \in Codes : RegisterEmployeeFaceFail(w, code)

RecognizerRead ==
    \/ \E q \in Encodings, scan \in ScanOrders(DOMAIN db) : Recognize(q, scan)
    \/ \E q \in Encodings : RecognizeReadFailure(q)
    \/ \E q \in Encodings, scan \in ScanOrders(Employees) : RecognizeLegacy(q, scan)

RecognizerNext == RecognizerWrite(SerialWorker) \/ RecognizerRead

RecognizerSpec == RecognizerInit /\ [][RecognizerNext]_vars

\* The two recognisers over one table, the encodings of the employees table,
\* for a detector of any of the tolerances.
PolicyWrite(w) ==
    \/ \E code \in Employees, enc \in Encodings : RegisterEmployeeFace(w, code, enc)
    \/ \E code \in Codes : RegisterEmployeeFaceFail(w, code)

PolicyRead ==
    \/ \E q \in Encodings, scan \in ScanOrders(Employees) : RecognizeLegacy(q, scan)
    \/ \E q \in Encodings, scan \in ScanOrders(Employees) : RecognizeFallback(q, scan)

PolicyNext == PolicyWrite(SerialWorker) \/ PolicyRead

PolicySpec == RecognizerInit /\ [][PolicyNext]_vars

\* The requests of the kiosk.
Kiosk(w) ==
    \/ \E code \in Codes \cup {None} : CheckInBegin(w, code)
    \/ CheckInCommit(w)
    \/ \E code \in Codes \cup {None} : CheckOutBegin(w, code)
    \/ CheckOutCommit(w)

\* Schedule tables the administrator has left: none; for E1 an active
\* schedule without limits, one effective from day 1, one of the weekday 1
\* only, an inactive one.
KioskSchedules ==
    LET S(active, from, days) ==
            <<[employee_code |-> "E1", is_active |-> active, effective_from |-> from,
               effective_to |-> NoDate, work_days |-> days]>>
    IN  {<< >>, S(TRUE, NoDate, {}), S(TRUE, 1, {}), S(TRUE, NoDate, {1}),
         S(FALSE, NoDate, {})}

KioskInit ==
    /\ FACE_RECOGNITION_TOLERANCE = ConfigTolerance
    /\ attendance = << >>
    /\ work_schedules \in KioskSchedules
    /\ next_schedule_id = Len(work_schedules) + 1
    /\ now = 0
    /\ kiosk = [w \in Workers |-> IdleKiosk]
    /\ db = << >>
    /\ next_id = 1
    /\ tolerance = DefaultTolerance
    /\ legacy = [code \in Employees |-> << >>]
    /\ pc = [w \in Workers |-> "idle"]
    /\ req = [w \in Workers |-> IdleReq]
    /\ tx = [w \in Workers |-> IdleTx]
    /\ last = NoExchange

\* The kiosk requests served one at a time while the clock advances.
KioskNext == Kiosk(SerialWorker) \/ Tick

KioskSpec == KioskInit /\ [][KioskNext]_vars

\* The kiosk requests served concurrently, one thread and one session each.
KioskConcurrentNext == (\E w \in Workers : Kiosk(w)) \/ Tick

KioskConcurrentSpec == KioskInit /\ [][KioskConcurrentNext]_vars

\* The schedule requests of the administrator, one at a time, with forms
\* without limits, effective from day 1, and with the limits the wrong way
\* round.
ScheduleNext ==
    \/ \E code \in Codes \cup {None}, is_active \in BOOLEAN,
          window \in {<<NoDate, NoDate>>, <<1, NoDate>>, <<1, 0>>} :
          ScheduleNew(code, is_active, window[1], window[2])
    \/ \E schedule_id \in 1..MaxSchedules, code \in Codes \cup {None},
          is_active \in BOOLEAN,
          window \in {<<NoDate, NoDate>>, <<1, NoDate>>, <<1, 0>>} :
          ScheduleEdit(schedule_id, code, is_active, window[1], window[2])
    \/ \E schedule_id \in 1..MaxSchedules : ScheduleDelete(schedule_id)

ScheduleSpec == KioskInit /\ [][ScheduleNext]_vars

\* FaceService.__init__: self.face_detector = FaceDetector(), whatever the
\* configuration holds.
FaceServiceTolerance(configured) == DefaultTolerance

\* The application started under any configured tolerance: enrolments one at a
\* time and recognitions.
ConfiguredTolerances == {DefaultTolerance, 500, ConfigTolerance}

ConfiguredInit ==
    /\ FACE_RECOGNITION_TOLERANCE \in ConfiguredTolerances
    /\ attendance = << >>
    /\ work_schedules = << >>
    /\ next_schedule_id = 1
    /\ now = 0
    /\ kiosk = [w \in Workers |-> IdleKiosk]
    /\ db = << >>
    /\ next_id = 1
    /\ tolerance = FaceServiceTolerance(FACE_RECOGNITION_TOLERANCE)
    /\ legacy = [code \in Employees |-> << >>]
    /\ pc = [w \in Workers |-> "idle"]
    /\ req = [w \in Workers |-> IdleReq]
    /\ tx = [w \in Workers |-> IdleTx]
    /\ last = NoExchange

ConfiguredWrite(w) ==
    \/ \E code \in Employees, sp \in BOOLEAN : RegisterBegin(w, code, 1, sp)
    \/ AddUpdate(w)
    \/ \E enc \in EnrollEncodings : AddCommit(w, enc)
    \/ AddCommitFail(w)

ConfiguredRead ==
    \/ \E q \in Encodings, scan \in ScanOrders(DOMAIN db) : Recognize(q, scan)
    \/ \E q \in Encodings : RecognizeReadFailure(q)

ConfiguredNext == ConfiguredWrite(SerialWorker) \/ ConfiguredRead

ConfiguredSpec == ConfiguredInit /\ [][ConfiguredNext]_vars

\* add_face_embedding called with the scores of the quality gate, or without.
GatedWrite(w) ==
    \/ \E code \in Employees, region \in GateRegions : ServiceAddGated(w, code, region)
    \/ \E code \in Employees : ServiceAddBegin(w, code, "standard")
    \/ \E enc \in LegacyEncodings : AddCommit(w, enc)
    \/ AddCommitFail(w)

GatedRead ==
    \/ \E region \in GateRegions :
           FaceQualityMeasured(region[1], region[2], region[3], region[4])
    \/ \E code \in Codes : ListEmbeddings(code)

GatedNext == GatedWrite(SerialWorker) \/ GatedRead

GatedSpec == Init /\ [][GatedNext]_vars

\* detect_face_quality applied to face regions of any measurements.
QualityNext ==
    \/ \E sharpness \in Sharpnesses, brightness \in Brightnesses,
          contrast \in Contrasts, face_ratio \in FaceRatios :
           FaceQualityMeasured(sharpness, brightness, contrast, face_ratio)
    \/ FaceQualityEmptyRegion
    \/ FaceQualityFailed

QualitySpec == Init /\ [][QualityNext]_vars

\* ------------------------------------------------------------- properties
\* Every commit that changes db completes an exchange, so while last is a
\* recognition, db is the table that recognition read.
Served == last.op = "recognize" /\ last.status = 200

ActiveOf(d, code) == {i \in RowsOf(d, code) : d[i].is_active}

ActivePrimaries(d, code) == {i \in ActiveOf(d, code) : d[i].is_primary}

\* The least distance from q to an active row of the table.
NearestDistance(q) ==
    LET ds == {FaceDistance(db[i].embedding, q) : i \in ActiveIds(db)}
    IN  CHOOSE m \in ds : \A x \in ds : m <= x

\* C1. Primary uniqueness: with the mutating requests served one at a time,
\* every identity has at most one active row flagged primary.
PrimaryUniqueness ==
    \A code \in Employees : Cardinality(ActivePrimaries(db, code)) <= 1

\* A set_primary has moved the flag between two rows of one identity.
PrimaryMoved ==
    /\ last.op = "set_primary" /\ last.success
    /\ Cardinality(ActiveOf(db, last.employee_code)) >= 2
    /\ ActivePrimaries(db, last.employee_code) = {last.id}

\* C2. Two-stage acceptance: recognition succeeds exactly when the gallery is
\* not empty, the least distance d is below the tolerance and 1 - d is at
\* least 0.6; it then reports the confidence 1 - d and the distance d.
TwoStageAcceptance ==
    Served =>
        /\ last.success <=>
              /\ last.known > 0
              /\ NearestDistance(last.query) < tolerance
              /\ Unit - NearestDistance(last.query) >= ConfidenceFloor
        /\ last.success =>
              /\ last.distance = NearestDistance(last.query)
              /\ last.confidence = Unit - last.distance

\* A recognition succeeded at a distance above 0.
AcceptedNearby == Served /\ last.success /\ last.distance > 0

\* C3. Low confidence: a least distance below the tolerance with 1 - d below
\* 0.6 gives a failure without identity and the low-confidence message; a
\* least distance not below the tolerance gives the no-match message; the two
\* messages differ.
LowConfidenceOutcome ==
    (Served /\ last.known > 0) =>
        LET d == NearestDistance(last.query) IN
        /\ (d < tolerance /\ Unit - d < ConfidenceFloor) =>
              /\ ~last.success
              /\ last.employee_code = None
              /\ last.message = MsgLowConfidence
              /\ last.confidence = Unit - d
        /\ d >= tolerance => (~last.success /\ last.message = MsgNoMatch)
        /\ MsgLowConfidence # MsgNoMatch

\* The low-confidence outcome on a gallery of exactly one embedding.
LowConfidenceOnOne ==
    Served /\ last.known = 1 /\ last.message = MsgLowConfidence

\* C4. Auto-primary: a row added without set_as_primary for an identity that
\* had no active row is primary.
AutoPrimary ==
    (/\ last.op = "register" /\ last.success /\ ~last.sp
     /\ ActiveOf(db, last.employee_code) = {last.embedding_id})
    => (db[last.embedding_id].is_primary /\ last.is_primary)

\* An identity whose rows were all deleted is enrolled again without
\* set_as_primary.
EnrolledAgain ==
    /\ last.op = "register" /\ last.success /\ ~last.sp
    /\ ActiveOf(db, last.employee_code) = {last.embedding_id}
    /\ DOMAIN db = {last.embedding_id}
    /\ last.embedding_id > 1

\* C5. Stale-free gallery: a row whose deletion has committed is in no later
\* gallery read; a recognition never holds more entries than there are active
\* committed rows and returns an identity only through an active row of that
\* identity at the reported distance.
StaleFreeGallery ==
    /\ (last.op = "delete" /\ last.success) => last.id \notin ActiveIds(db)
    /\ Served => last.known <= Cardinality(ActiveIds(db))
    /\ (Served /\ last.success) =>
          \E i \in ActiveOf(db, last.employee_code) :
              FaceDistance(db[i].embedding, last.query) = last.distance

\* A recognition after a deletion succeeds through a row that is left.
RecognizedAfterDelete ==
    /\ Served /\ last.success
    /\ Cardinality(DOMAIN db) < next_id - 1

\* C6. Primary uniqueness under concurrency: once every request has
\* committed, every identity has at most one active primary row.
ConcurrentPrimaryUniqueness ==
    (\A w \in Workers : pc[w] = "idle") =>
        \A code \in Employees : Cardinality(ActivePrimaries(db, code)) <= 1

\* C7. No half-done switch: while a request that sets a primary is under way,
\* every step leaves the committed primaries of its identity as they were or
\* replaces them by exactly the new primary.
NoHalfDoneSwitch ==
    [][\A w \in Workers :
          (pc[w] \in {"add_update", "add_commit", "setp_update", "setp_commit"}
           /\ req[w].sp) =>
              \/ PrimaryIds(db', req[w].code) = PrimaryIds(db, req[w].code)
              \/ /\ last'.success
                 /\ PrimaryIds(db', req[w].code) = {last'.embedding_id}]_vars

\* A recognition read the table between the UPDATE and the commit of a switch.
ReadDuringSwitch ==
    /\ last.op = "recognize"
    /\ \E w \in Workers :
          /\ pc[w] \in {"add_commit", "setp_commit"}
          /\ tx[w].cleared # {}
          /\ PrimaryIds(db, req[w].code) = tx[w].cleared

\* C8. Rollback: no step of a request that sets a primary changes the committed
\* table before its commit, and a failed commit leaves the table and the id
\* sequence as they are, drops the uncommitted work and returns a failure.
RollbackOnFailure ==
    [][\A w \in Workers :
          /\ (pc[w] \in {"add_update", "setp_update"} /\ req[w].sp) => db' = db
          /\ (pc[w] \in {"add_commit", "setp_commit"} /\ req[w].sp
              /\ pc'[w] = "idle" /\ ~last'.success) =>
                 /\ db' = db
                 /\ next_id' = next_id
                 /\ tx'[w] = IdleTx
                 /\ last'.message \in {MsgAddFailed, MsgPrimaryFailed}]_vars

\* A set_primary failed at its commit: the previous primary is still primary
\* and the row it named is not.
PrimaryKeptAfterFailure ==
    /\ last.op = "set_primary" /\ last.message = MsgPrimaryFailed
    /\ last.id \in DOMAIN db
    /\ ~db[last.id].is_primary
    /\ PrimaryIds(db, db[last.id].employee_code) # {}

\* C9. Single face: an enrolment whose image holds 0 or several faces fails
\* with the one-face message and changes neither the table, nor the id
\* sequence, nor any uncommitted work.
SingleFaceEnrolment ==
    [][(last' # last /\ last'.op = "register" /\ last'.faces \notin {NotRun, 1}) =>
          /\ ~last'.success
          /\ last'.status = 400
          /\ last'.message = MsgOneFace
          /\ last'.embedding_id = NoId
          /\ db' = db
          /\ next_id' = next_id
          /\ tx' = tx]_vars

\* An image with two faces was refused while the table holds a primary row.
TwoFacesRefused ==
    /\ last.op = "register" /\ last.faces = 2 /\ ~last.success
    /\ \E i \in DOMAIN db : db[i].is_primary

\* C10. Empty gallery: with no active row, recognition fails without
\* identity, with confidence 0, the message 'No registered faces found' and no
\* distance.
EmptyGallery ==
    (Served /\ ActiveIds(db) = {}) =>
        /\ ~last.success
        /\ last.known = 0
        /\ last.employee_code = None
        /\ last.confidence = 0
        /\ last.message = MsgNoRegistered
        /\ last.distance = NoDistance

\* A recognition ran on a table emptied by deletions.
RecognizedOnEmptied ==
    Served /\ ActiveIds(db) = {} /\ next_id > 1

\* C11. Best candidate: a successful recognition of a query of the length of
\* the stored vectors returns one identity, the owner of the first row, in the
\* order the gallery was read, whose distance to the query is the least of the
\* whole gallery; rows of other identities below the tolerance do not change
\* it.
BestCandidate ==
    [][(/\ last' # last /\ last'.op = "recognize" /\ last'.success
        /\ \A i \in ActiveIds(db) : Len(db[i].embedding) = Len(last'.query)) =>
          LET dist == [i \in ActiveIds(db) |-> FaceDistance(db[i].embedding, last'.query)]
              least == CHOOSE m \in {dist[i] : i \in ActiveIds(db)} :
                           \A i \in ActiveIds(db) : m <= dist[i]
          IN  /\ last'.employee_code \in Employees
              /\ last'.distance = least
              /\ \A scan \in ScanOrders(DOMAIN db) :
                    Recognize(last'.query, scan) =>
                        LET rows == SelectSeq(scan, LAMBDA i : db[i].is_active)
                            first == CHOOSE k \in 1..Len(rows) :
                                         /\ dist[rows[k]] = least
                                         /\ \A j \in 1..(k - 1) : dist[rows[j]] # least
                        IN  last'.employee_code = db[rows[first]].employee_code]_vars

\* A recognition returned an identity while a row of another identity was
\* below the tolerance too, farther from the query.
NearestAmongTwoNear ==
    /\ Served /\ last.success
    /\ \A i \in ActiveIds(db) : Len(db[i].embedding) = Len(last.query)
    /\ \E i, j \in ActiveIds(db) :
          /\ db[i].employee_code = last.employee_code
          /\ db[j].employee_code # last.employee_code
          /\ FaceDistance(db[i].embedding, last.query) = last.distance
          /\ FaceDistance(db[j].embedding, last.query) > last.distance
          /\ FaceDistance(db[j].embedding, last.query) < tolerance

TypesNeverMixed ==
    Served =>
        \E t \in EmbeddingTypes :
            last.known <= Cardinality({i \in ActiveIds(db) : db[i].embedding_type = t})

QueryDimensionCheck ==
    (/\ Served /\ last.known > 0
     /\ \A i \in ActiveIds(db) : Len(db[i].embedding) # Len(last.query))
    => /\ ~last.success
       /\ last.employee_code = None
       /\ last.distance = NoDistance

\* C16. Not found: set_primary_embedding and delete_face_embedding called with
\* an id that no row has fail with the not-found message naming the id, and
\* leave the table, the id sequence and every session as they are.
NotFoundLeavesStore ==
    [][(/\ last' # last
        /\ last'.op \in {"set_primary", "delete"}
        /\ last'.id \notin DOMAIN db)
       => /\ ~last'.success
          /\ last'.message = MsgEmbeddingNotFound
          /\ last'.embedding_id = last'.id
          /\ db' = db
          /\ next_id' = next_id
          /\ tx' = tx]_vars

\* A set_primary named the id of a row that was deleted, while another row is
\* primary.
UnknownIdRefused ==
    /\ last.op = "set_primary" /\ last.message = MsgEmbeddingNotFound
    /\ last.id < next_id
    /\ \E i \in DOMAIN db : db[i].is_primary

\* C17. Unknown identity: add_face_embedding for a code that no employee has
\* fails with the employee-not-found message, adds no row, takes no id and
\* clears no primary flag, committed or not, also with set_as_primary.
UnknownIdentityOnAdd ==
    [][(/\ last' # last
        /\ last'.op = "register"
        /\ last'.code \in Codes \ Employees)
       => /\ ~last'.success
          /\ last'.message = MsgEmployeeNotFound
          /\ last'.employee_code = last'.code
          /\ last'.embedding_id = NoId
          /\ db' = db
          /\ next_id' = next_id
          /\ tx' = tx
          /\ \A i \in DOMAIN db' : db'[i].employee_code \in Employees]_vars

\* An add with set_as_primary for an unknown code was refused while a row is
\* primary.
UnknownEmployeeRefused ==
    /\ last.op = "register" /\ last.code = UnknownCode /\ last.sp
    /\ ~last.success
    /\ \E i \in DOMAIN db : db[i].is_primary

MatcherReadOnly ==
    [][(last' # last /\ last'.op \in {"recognize", "recognize_legacy"})
       => /\ db' = db
          /\ legacy' = legacy
          /\ next_id' = next_id
          /\ tx' = tx
          /\ pc' = pc]_vars

\* A recognition by recognize_employee ended in the low-confidence result
\* while both tables hold encodings and one row is primary.
LegacyLowConfidence ==
    /\ last.op = "recognize_legacy" /\ last.message = MsgLowConfidence
    /\ \E i \in DOMAIN db : db[i].is_primary

Indicator(b) == IF b THEN 1 ELSE 0

\* C20. Quality score: for a measured face region the score is
\* 30 [sharpness >= 100] + 30 [brightness >= 50] + 20 [ratio >= 0.01]
\* + (10 for a brightness in [50, 200], 5 in [30, 50) or (200, 250], else 0)
\* + (10 for a contrast > 30, 5 for a contrast > 20, else 0); is_blurry,
\* is_dark and is_small are the negations of the three tests; the score is
\* within 0..100.
QualityScoreFormula ==
    (last.op = "quality" /\ last.quality.laplacian_variance # NotRun) =>
        LET m == last.quality
            bright == IF m.brightness \in 50..200 THEN 10
                      ELSE IF m.brightness \in (30..49) \cup (201..250) THEN 5
                      ELSE 0
            contr == IF m.contrast > 30 THEN 10 ELSE IF m.contrast > 20 THEN 5 ELSE 0
        IN  /\ m.quality_score = 30 * Indicator(m.laplacian_variance >= 100)
                                  + 30 * Indicator(m.brightness >= 50)
                                  + 20 * Indicator(m.face_ratio >= 100)
                                  + bright + contr
            /\ m.is_blurry = ~(m.laplacian_variance >= 100)
            /\ m.is_dark = ~(m.brightness >= 50)
            /\ m.is_small = ~(m.face_ratio >= 100)
            /\ m.quality_score \in 0..100

\* A region exactly on the sharpness, brightness and size thresholds, with a
\* contrast of exactly 30, scores 95.
QualityOnThresholds ==
    /\ last.op = "quality"
    /\ last.quality.laplacian_variance = 100 /\ last.quality.brightness = 50
    /\ last.quality.face_ratio = 100 /\ last.quality.contrast = 30
    /\ last.quality.quality_score = 95


\* C21. Structured results: every enrolment and every recognition ends in a
\* response with a status, a success flag and a message; one that has no
\* success leaves the table and the id sequence as they are and names no new
\* row; when the detector found no face (or raised) or the encoder gave no
\* vector, the response has no success.
StructuredResults ==
    [][(last' # last /\ last'.op \in {"register", "recognize"}) =>
          /\ last'.status \in {200, 400, 500}
          /\ last'.message # None
          /\ ~last'.success =>
                /\ db' = db
                /\ next_id' = next_id
                /\ last'.op = "register" => last'.embedding_id = NoId
          /\ (last'.faces = 0 \/ last'.status = 500) => ~last'.success]_vars

\* An enrolment whose encoder gave no vector for the one face located was
\* answered with a failure while the table holds rows.
EncoderFaultRefused ==
    /\ last.op = "register" /\ last.faces = 1 /\ last.status = 500
    /\ ~last.success /\ last.message = MsgRegisterCrash
    /\ DOMAIN db # {}

\* C22. Configurable tolerance: the tolerance applied in the first stage of a
\* recognition is the configured one: a least distance passes the first stage
\* (the result is a recognition or the low-confidence failure) exactly when it
\* is below FACE_RECOGNITION_TOLERANCE.
ConfiguredToleranceApplied ==
    (Served /\ last.distance # NoDistance) =>
        (last.distance < FACE_RECOGNITION_TOLERANCE
            <=> last.message \in {MsgRecognized, MsgLowConfidence})


\* C23. A primary always exists: with the mutating requests served one at a
\* time, every identity that has an active row has exactly one active row
\* flagged primary.
PrimaryAlwaysExists ==
    \A code \in Employees :
        ActiveOf(db, code) # {} => Cardinality(ActivePrimaries(db, code)) = 1


\* C24. Stored quality range: every row of face_embeddings has no quality
\* score or one within [0, 1], whatever score of the quality gate was passed to
\* add_face_embedding.
StoredQualityRange ==
    \A i \in DOMAIN db :
        db[i].quality_score = NoQuality \/ db[i].quality_score \in 0..1


\* C25. Under the tolerance FaceService uses, 0.4, the low-confidence result
\* never comes: a recognition over a gallery that is not empty succeeds
\* exactly when the least distance is below 0.4, and fails with the no-match
\* message otherwise.
SingleTestAtDefault ==
    (Served /\ tolerance = DefaultTolerance) =>
        /\ last.message # MsgLowConfidence
        /\ last.known > 0 =>
              /\ last.success <=> NearestDistance(last.query) < DefaultTolerance
              /\ ~last.success => last.message = MsgNoMatch

\* A recognition under the tolerance 0.4 succeeded with a confidence within 0.1
\* of the floor.
AcceptedNearFloor ==
    /\ Served /\ tolerance = DefaultTolerance
    /\ last.success
    /\ last.confidence - ConfidenceFloor <= 100


\* C26. One decision policy: the result recognize_employee gives for a query,
\* a tolerance and an ordered list of encodings and identities is the result
\* recognize_employee_multi gives for the same three: the same success flag,
\* identity, confidence, distance and message.
PolicyAgreement ==
    [][(last' # last /\ last'.op = "recognize_legacy") =>
          \A scan \in ScanOrders(Employees) :
              RecognizeLegacy(last'.query, scan) =>
                  LET g == GetAllFaceEncodings(legacy, scan)
                      r == RecognizeResult(last'.query, g.encs, g.codes, tolerance)
                  IN  /\ last'.success = r.success
                      /\ last'.employee_code = r.employee_code
                      /\ last'.confidence = r.confidence
                      /\ last'.distance = r.distance
                      /\ last'.message = r.message]_vars

\* recognize_employee ended in the low-confidence result over the encodings of
\* two employees.
LegacyPolicyLowConfidence ==
    /\ last.op = "recognize_legacy" /\ last.message = MsgLowConfidence
    /\ last.known = 2


\* C27. Frame of the primary flags: an add without set_as_primary for an
\* identity that has an active row creates a row that is not primary and
\* changes the primary flag of no other row; a set_primary and an add with
\* set_as_primary change the primary flag of no row of another identity; no
\* other step changes a primary flag of a row that stays.
PrimaryFrame ==
    [][LET Kept(i) == i \in DOMAIN db' /\ db'[i].is_primary = db[i].is_primary
           done == last' # last /\ last'.success
       IN  /\ (/\ done /\ last'.op = "register" /\ ~last'.sp
               /\ ActiveOf(db, last'.code) # {}) =>
                  /\ ~db'[last'.embedding_id].is_primary
                  /\ ~last'.is_primary
                  /\ \A i \in DOMAIN db : Kept(i)
           /\ (done /\ (last'.op = "set_primary" \/ (last'.op = "register" /\ last'.sp))) =>
                  \A i \in DOMAIN db :
                      db[i].employee_code # last'.employee_code => Kept(i)
           /\ ~(done /\ last'.op \in {"register", "set_primary"}) =>
                  \A i \in DOMAIN db \cap DOMAIN db' : Kept(i)]_vars

\* A second row was added without set_as_primary for an identity whose first
\* row is primary, and is not primary.
NonPrimaryAdded ==
    /\ last.op = "register" /\ last.success /\ ~last.sp /\ ~last.is_primary
    /\ \E i \in ActiveOf(db, last.code) : i # last.embedding_id /\ db[i].is_primary


\* ------------------------------------------------------------- C28
\* The check-in/check-out protocol of the kiosk on each step of its requests:
\* an (employee, date) pair has one attendance row, and a time once recorded
\* never changes; a check-in that succeeds stamps a row of the employee whose
\* day had no check-in, a check-out that succeeds stamps a row that had a
\* check-in and no check-out; a check-in on a day that has one, and a check-out
\* on a day that has no check-in or has a check-out, is refused and changes no
\* row.  With strict the refusal is 409 always; without it the refusal is 409
\* when the request passes the schedule checks of its handler and 403 when it
\* does not.
KioskProtocol(strict) ==
       LET op == last'.op
           code == last'.code
           done == last' # last /\ op \in {"check_in", "check_out"}
           under_way == {w \in Workers : kiosk[w].pc # "idle" /\ kiosk'[w].pc = "idle"}
           today == IF under_way = {} THEN Date(now)
                    ELSE kiosk[CHOOSE w \in under_way : TRUE].today
           rows == {a \in DOMAIN attendance :
                       attendance[a].employee_code = code /\ attendance[a].date = today}
           ins == {a \in rows : attendance[a].check_in_time # NoTime}
           outs == {a \in rows : attendance[a].check_out_time # NoTime}
           passes ==
               IF op = "check_in"
               THEN \E s \in ActiveSchedules(code) :
                        /\ IsEffectiveOn(work_schedules[s], today)
                        /\ IsWeekdayAllowed(work_schedules[s], today % 7)
               ELSE ActiveSchedules(code) # {}
           refusal == IF strict \/ passes THEN 409 ELSE 403
       IN  /\ \A a \in DOMAIN attendance :
                /\ a \in DOMAIN attendance'
                /\ attendance[a].check_in_time # NoTime =>
                      attendance'[a].check_in_time = attendance[a].check_in_time
                /\ attendance[a].check_out_time # NoTime =>
                      attendance'[a].check_out_time = attendance[a].check_out_time
           /\ \A a, b \in DOMAIN attendance' :
                (/\ attendance'[a].employee_code = attendance'[b].employee_code
                 /\ attendance'[a].date = attendance'[b].date) => a = b
           /\ (done /\ op = "check_in" /\ last'.success) =>
                /\ last'.id \in DOMAIN attendance'
                /\ attendance'[last'.id] =
                      [employee_code |-> code, date |-> Date(now),
                       check_in_time |-> now, check_out_time |-> NoTime]
                /\ \A a \in DOMAIN attendance :
                      (/\ attendance[a].employee_code = code
                       /\ attendance[a].date = Date(now)) =>
                         attendance[a].check_in_time = NoTime
           /\ (done /\ op = "check_out" /\ last'.success) =>
                /\ last'.id \in ins \ outs
                /\ attendance'[last'.id] =
                      [attendance[last'.id] EXCEPT !.check_out_time = now]
           /\ (done /\ code \in Employees /\ op = "check_in" /\ ins # {}) =>
                /\ last'.status = refusal
                /\ attendance' = attendance
           /\ (done /\ code \in Employees /\ op = "check_out"
                    /\ (ins = {} \/ outs # {})) =>
                /\ last'.status = refusal
                /\ attendance' = attendance

\* C28 as stated: a repeated check-in, a repeated check-out and a check-out
\* without check-in return 409 whatever the schedule of the employee.
CheckInOutProtocol == [][KioskProtocol(TRUE)]_vars

\* C28, amended: the refusal is 409 when the request passes the schedule
\* checks of its handler, and 403 when it does not; the rest as stated.
CheckInOutProtocolScheduled == [][KioskProtocol(FALSE)]_vars

\* A second check-out on the day of a completed check-in and check-out was
\* refused with 409.
RepeatedCheckOutRefused ==
    /\ last.op = "check_out"
    /\ last.status = 409
    /\ last.message = "Already checked out"
    /\ last.id \in DOMAIN attendance
    /\ attendance[last.id].check_in_time # NoTime
    /\ attendance[last.id].check_out_time > attendance[last.id].check_in_time


\* ------------------------------------------------------------- C29
\* C29: an (employee, date) pair has at most one attendance row, so at most
\* one of the check-in requests of the pair has reported success.
OneAttendancePerDay ==
    \A a, b \in DOMAIN attendance :
        (/\ attendance[a].employee_code = attendance[b].employee_code
         /\ attendance[a].date = attendance[b].date) => a = b


\* ------------------------------------------------------------- C30
\* C30: every employee has at most one active work schedule, so the row
\* get_current_schedule reads is determined.
SingleActiveSchedule ==
    \A code \in Employees : Cardinality(ActiveSchedules(code)) <= 1

\* An edit made a schedule the active one of an employee who has another
\* schedule, created later, which is inactive.
EditedOntoActive ==
    /\ last.op = "schedule_edit"
    /\ last.success
    /\ work_schedules[last.id].employee_code = last.code
    /\ work_schedules[last.id].is_active
    /\ \E i \in DOMAIN work_schedules :
          /\ i > last.id
          /\ work_schedules[i].employee_code = last.code
          /\ ~work_schedules[i].is_active

====
